---- MODULE Spec2Model ----
(***************************************************************************)
(* Air Quality Dashboard: the client-side state store of                   *)
(* frontend/js/app.js (AppState, its event handlers and its renderers)     *)
(* and the REST client it calls, against a REST backend that holds the     *)
(* records.                                                                *)
(*                                                                         *)
(* The browser runs one handler or one promise continuation chain at a     *)
(* time; a step of the model is one such run-to-completion: a UI event, a  *)
(* timer, or the arrival of a network reply together with every            *)
(* continuation it wakes.  The backend handles a request in a step of its  *)
(* own, between the sending of the request and the arrival of its reply.   *)
(*                                                                         *)
(* Spec is the page as a whole.  UnitSpec calls the functions that keep no *)
(* state (apiFetch, getColorForValue, analyzeTrend) on bounded inputs, and *)
(* DebounceSpec runs the wrapper of debounce against a clock.  TrendSpec   *)
(* is the page load followed by navigation and the trends page.            *)
(***************************************************************************)
EXTENDS Integers, Sequences, FiniteSets, TLC

\* ------------------------------------------------------------------ bounds
\* Records in the backend when the page is loaded.
MaxRecords == 21
\* Record fetches (GET /records) issued during one page load.
MaxRequests == 3
\* Record fetches and deletes awaiting their reply at the same time.
MaxInFlight == 2
\* confirm() dialogs answered during one page load.
MaxConfirms == 1
\* Keystrokes typed into the commune search while the debounce is watched.
MaxKeys == 3
\* Largest pollutant concentration given to getColorForValue, in ug/m3.
MaxValue == 101
\* Points of a trend series given to analyzeTrend.
MaxPoints == 3
\* Trend fetches (GET /trends) issued during one page load.
MaxTrends == 2

\* --------------------------------------------------------------- constants
\* AppState.pagination.pageSize
PageSize == 20
\* The quiet period of the commune search, in milliseconds.
Wait == 300

NoReply == [status |-> "none"]
NoRequest == [seq |-> 0, kind |-> "none", query |-> [k \in {} |-> ""]]
NoDelete == [id |-> 0, before |-> {}]
NoTimer == [armed |-> FALSE, value |-> ""]
Blank == [shown |-> FALSE, rows |-> <<>>]
NoToasts == <<>>

\* ----------------------------------------------------------------- backend
\* The records of the database: record id |-> its columns.  The first page
\* of the unfiltered list is region A, everything behind it region B.
RegionOf(id) == IF id <= PageSize THEN "A" ELSE "B"
CommuneOf(id) == IF id <= PageSize THEN "paris" ELSE "lyon"
AnneeOf(id) == 2020

\* latitude and longitude are optional columns: the first record has none.
HasCoordinates(id) == id # 1

BackendRegions == {"A", "B"}
BackendYears == {2020}

Digits == <<"0", "1", "2", "3", "4", "5", "6", "7", "8", "9">>

\* String(n) of a non-negative integer, as `${n}` and URLSearchParams do.
RECURSIVE ToStr(_)
ToStr(n) == IF n < 10 THEN Digits[n + 1]
            ELSE ToStr(n \div 10) \o Digits[(n % 10) + 1]

\* The backend's reading of a decimal query parameter.
ParseInt(s) == CHOOSE n \in 0..(MaxRecords + PageSize + 1) : ToStr(n) = s

\* ILIKE %q% of the commune column, for the search texts the user types.
Contains(name, q) == q = "" \/ <<q, name>> \in {<<"par", "paris">>, <<"paris", "paris">>}

\* The rows of a relation in id order.
RECURSIVE SortedSeq(_)
SortedSeq(S) == IF S = {} THEN <<>>
                ELSE LET m == CHOOSE x \in S : \A y \in S : x <= y
                     IN <<m>> \o SortedSeq(S \ {m})

Min(a, b) == IF a < b THEN a ELSE b

\* GET /records?region&annee&commune&page&page_size -> {data, total}
ListRecords(db, query) ==
    LET has(k) == k \in DOMAIN query
        match == {id \in db :
                    /\ has("region") => RegionOf(id) = query["region"]
                    /\ has("annee") => ToStr(AnneeOf(id)) = query["annee"]
                    /\ has("commune") => Contains(CommuneOf(id), query["commune"])}
        pg == IF has("page") THEN ParseInt(query["page"]) ELSE 1
        sz == IF has("page_size") THEN ParseInt(query["page_size"]) ELSE PageSize
        all == SortedSeq(match)
        lo == (pg - 1) * sz + 1
        hi == Min(pg * sz, Len(all))
    IN [data |-> IF lo > hi THEN <<>> ELSE SubSeq(all, lo, hi),
        total |-> Cardinality(match)]

\* ------------------------------------------------------------- REST client
StrKeys == {"commune", "region", "annee"}
IntKeys == {"page", "page_size"}

\* getRecords appending every argument, empty or not.
getRecords_sendsEmpty(params) ==
    [k \in StrKeys \cup IntKeys |-> IF k \in IntKeys THEN ToStr(params[k]) ELSE params[k]]

\* getRecords: the query string, a parameter per truthy argument.
getRecords(params) ==
    LET present == {k \in StrKeys : params[k] # ""} \cup {k \in IntKeys : params[k] # 0}
    IN [k \in present |-> IF k \in IntKeys THEN ToStr(params[k]) ELSE params[k]]

\* What fetch() can come back with: no response at all, or a response with
\* a status and a body.  A body is JSON or not; a JSON body may carry a
\* "detail" (the backend's error message) and a payload.
Statuses == {200, 201, 204, 400, 404, 500}
Endpoints == {"/records", "/records/7", "/regions"}
Bodies ==
    {[json |-> TRUE, hasDetail |-> TRUE, detail |-> "Record not found", data |-> ""],
     [json |-> TRUE, hasDetail |-> TRUE, detail |-> "", data |-> ""],
     [json |-> TRUE, hasDetail |-> FALSE, detail |-> "", data |-> "payload"],
     [json |-> FALSE, hasDetail |-> FALSE, detail |-> "", data |-> ""]}
NoBody == [json |-> FALSE, hasDetail |-> FALSE, detail |-> "", data |-> ""]
FetchOutcomes ==
    {[type |-> "network-error", status |-> 0, body |-> NoBody]} \cup
    {[type |-> "response", status |-> st, body |-> b] : st \in Statuses, b \in Bodies}

\* response.ok
ResponseOk(status) == status >= 200 /\ status <= 299

\* How a call of an async function ends: it returns a value (null or a
\* parsed body) or it throws; log is what it wrote to console.error, read
\* whether it read the body of a successful response.
Returns(isNull, value, read) ==
    [kind |-> "return", message |-> "", isNull |-> isNull, value |-> value,
     log |-> <<>>, read |-> read]
Throws(message, log, read) ==
    [kind |-> "throw", message |-> message, isNull |-> FALSE, value |-> NoBody,
     log |-> log, read |-> read]

\* apiFetch with a catch that logs and returns null instead of rethrowing.
apiFetch_swallows(endpoint, out) ==
    IF out.type = "network-error" \/ ~ResponseOk(out.status)
    THEN [Returns(TRUE, NoBody, FALSE) EXCEPT !.log = <<endpoint>>]
    ELSE IF out.status = 204
    THEN Returns(TRUE, NoBody, FALSE)
    ELSE IF out.body.json
    THEN Returns(FALSE, out.body, TRUE)
    ELSE [Returns(TRUE, NoBody, TRUE) EXCEPT !.log = <<endpoint>>]

\* apiFetch without the 204 branch: every successful response is parsed.
apiFetch_parsesNoContent(endpoint, out) ==
    IF out.type = "network-error"
    THEN Throws("Failed to fetch", <<endpoint>>, FALSE)
    ELSE IF ~ResponseOk(out.status)
    THEN Throws(IF out.body.json /\ out.body.hasDetail /\ out.body.detail # ""
                THEN out.body.detail
                ELSE "HTTP error! status: " \o ToStr(out.status),
                <<endpoint>>, FALSE)
    ELSE IF out.body.json
    THEN Returns(FALSE, out.body, TRUE)
    ELSE Throws("Unexpected end of JSON input", <<endpoint>>, TRUE)

\* apiFetch: fetch, then the error of a non-ok response (its detail, or the
\* status), null for a 204, else the parsed body; whatever is thrown inside
\* is logged with the endpoint and thrown again.
apiFetch(endpoint, out) ==
    IF out.type = "network-error"
    THEN Throws("Failed to fetch", <<endpoint>>, FALSE)
    ELSE IF ~ResponseOk(out.status)
    THEN Throws(IF out.body.json /\ out.body.hasDetail /\ out.body.detail # ""
                THEN out.body.detail
                ELSE "HTTP error! status: " \o ToStr(out.status),
                <<endpoint>>, FALSE)
    ELSE IF out.status = 204
    THEN Returns(TRUE, NoBody, FALSE)
    ELSE IF out.body.json
    THEN Returns(FALSE, out.body, TRUE)
    ELSE Throws("Unexpected end of JSON input", <<endpoint>>, TRUE)

\* ------------------------------------------------------------ pure functions
\* getColorForValue: the thresholds object and the fallback for a pollutant
\* it does not list.
Thresholds ==
    [no2 |-> [low |-> 20, high |-> 40], pm10 |-> [low |-> 15, high |-> 45],
     pm25 |-> [low |-> 10, high |-> 25], o3 |-> [low |-> 60, high |-> 100]]
DefaultThresholds == [low |-> 20, high |-> 40]
Pollutants == {"no2", "pm10", "pm25", "o3", "so2"}

\* getColorForValue comparing with < where the code compares with <=.
getColorForValue_strict(value, pollutant) ==
    LET t == IF pollutant \in DOMAIN Thresholds THEN Thresholds[pollutant]
             ELSE DefaultThresholds
    IN IF value < t.low THEN "#22c55e"
       ELSE IF value < t.high THEN "#f59e0b"
       ELSE "#ef4444"

\* getColorForValue
getColorForValue(value, pollutant) ==
    LET t == IF pollutant \in DOMAIN Thresholds THEN Thresholds[pollutant]
             ELSE DefaultThresholds
    IN IF value <= t.low THEN "#22c55e"
       ELSE IF value <= t.high THEN "#f59e0b"
       ELSE "#ef4444"

\* analyzeTrend works on the values of a trend series.  A value is a
\* concentration in tenths of ug/m3 (300 is 30.0), or Null.
Null == -1
TrendValues == {Null, 0, 89, 90, 100, 110, 111, 300, 335, 3000, 3001}

Abs(x) == IF x < 0 THEN -x ELSE x

\* toFixed1 cutting the digits it drops instead of rounding.
toFixed1_truncates(a, b) ==
    (IF a < 0 THEN -1 ELSE 1) * (Abs(a) \div b)

\* (a / b).toFixed(1) for b > 0, as a number of tenths: the nearest tenth,
\* the half away from zero.  None of TrendValues gives a half.
toFixed1(a, b) ==
    (IF a < 0 THEN -1 ELSE 1) * ((2 * Abs(a) + b) \div (2 * b))

\* ((lastValue - firstValue) / firstValue * 100).toFixed(1), read back as a
\* number by the comparisons: tenths of a percent, or Infinity (nothing
\* here is below a first value of 0), or NaN for 0 / 0.
PercentChange(firstValue, lastValue) ==
    IF firstValue # 0
    THEN [kind |-> "finite", tenths |-> toFixed1((lastValue - firstValue) * 1000, firstValue)]
    ELSE IF lastValue # 0 THEN [kind |-> "Infinity", tenths |-> 0]
    ELSE [kind |-> "NaN", tenths |-> 0]

\* The if / else if chain of analyzeTrend; every comparison with NaN is false.
TrendClass(change) ==
    IF change.kind = "NaN" THEN "stable"
    ELSE IF change.kind = "Infinity" THEN "concerning increase"
    ELSE IF change.tenths < -100 THEN "significant decrease"
    ELSE IF change.tenths < 0 THEN "slight decrease"
    ELSE IF change.tenths > 100 THEN "concerning increase"
    ELSE IF change.tenths > 0 THEN "slight increase"
    ELSE "stable"

Insufficient ==
    [sufficient |-> FALSE, change |-> [kind |-> "NaN", tenths |-> 0], trend |-> ""]

\* analyzeTrend: too few points, or the class of the change from the first
\* to the last value that is not null.
analyzeTrend(trendData) ==
    IF Len(trendData) < 2 THEN Insufficient
    ELSE LET values == SelectSeq(trendData, LAMBDA v : v # Null)
         IN IF Len(values) < 2 THEN Insufficient
            ELSE LET change == PercentChange(values[1], values[Len(values)])
                 IN [sufficient |-> TRUE, change |-> change,
                     trend |-> TrendClass(change)]

\* ------------------------------------------------------------------- state
VARIABLES
    backend,        \* ids of the records in the database
    initPc,         \* position of the DOMContentLoaded handler
    apiStatus,      \* the #api-status indicator
    refs,           \* the three reference fetches of loadInitialData
    regions, years, summary,    \* AppState reference data
    options,        \* options of the region and year <select> widgets
    filters,        \* AppState.filters
    page, total,    \* AppState.pagination
    data,           \* AppState.data: ids of the records of the page
    dataReq,        \* the request whose reply AppState.data holds
    totalReq,       \* the request whose reply pagination.total holds
    nIssued,        \* record fetches issued so far
    fetches,        \* record fetches awaiting their reply
    deletes,        \* deletes awaiting their reply
    dialog,         \* the record id of the open confirm() dialog, 0 if none
    confirms,       \* the answers confirm() has returned so far
    table,          \* rows of #data-tbody
    pageInfo,       \* #pagination-info and the disabled flags of the buttons
    stats, charts,  \* what the stat cards and the dashboard charts show
    widgets,        \* the value each filter widget shows
    timer,          \* the debounce timer of the commune search
    toasts,         \* notifications put on screen by the latest event
    map,            \* AppState.map: TRUE once the Leaflet map exists
    mapMarkers,     \* AppState.mapMarkers: record ids of the markers on the map
    mapLayer,       \* the markers the Leaflet map itself holds and shows
    currentPage,    \* AppState.currentPage
    nTrends,        \* trend fetches issued so far
    trendFetches,   \* trend fetches awaiting their reply
    trendChart,     \* what the chart of the trends page shows
    trendText,      \* what #trend-analysis-text shows
    call,           \* the latest call of a function of the client, with its outcome
    clock           \* the debounce wrapper on its own: time, timeout, calls made

vars == <<backend, initPc, apiStatus, refs, regions, years, summary, options,
          filters, page, total, data, dataReq, totalReq, nIssued, fetches,
          deletes, dialog, confirms, table, pageInfo, stats, charts, widgets,
          timer, toasts, map, mapMarkers, mapLayer, currentPage, nTrends,
          trendFetches, trendChart, trendText, call, clock>>

\* The map page, the trends page with the page shown, and the variables of
\* the function-level specifications.
mapVars == <<map, mapMarkers, mapLayer>>
trendVars == <<currentPage, nTrends, trendFetches, trendChart, trendText>>
unitVars == <<call, clock>>

NoCall == [fn |-> "none"]
\* A map without markers.
NoMarkers == [latest |-> <<>>, earlier |-> {}]
\* The trends page before its first render.
NoChart == [shown |-> FALSE, pollutant |-> "", data |-> <<>>]
NoAnalysis == [shown |-> FALSE, analysis |-> Insufficient]
NoClock == [now |-> 0, text |-> "", timeout |-> 0, timers |-> {}, log |-> <<>>]

RefNames == {"regions", "years", "summary"}

Init ==
    /\ backend = 1..MaxRecords
    /\ initPc = "loading"
    /\ apiStatus = "unknown"
    /\ refs = [r \in RefNames |-> "unsent"]
    /\ regions = {}
    /\ years = {}
    /\ summary = 0
    /\ options = [region |-> {""}, year |-> {""}]
    /\ filters = [region |-> "", year |-> "", commune |-> ""]
    /\ page = 1
    /\ total = 0
    /\ data = <<>>
    /\ dataReq = NoRequest
    /\ totalReq = NoRequest
    /\ nIssued = 0
    /\ fetches = {}
    /\ deletes = {}
    /\ dialog = 0
    /\ confirms = <<>>
    /\ table = [placeholder |-> FALSE, rows |-> <<>>]
    /\ pageInfo = [page |-> 0, maxPage |-> 0, total |-> 0,
                   prevDisabled |-> FALSE, nextDisabled |-> FALSE]
    /\ stats = Blank
    /\ charts = Blank
    /\ widgets = [filterRegion |-> "", filterYear |-> "", dataRegion |-> "",
                  search |-> ""]
    /\ timer = NoTimer
    /\ toasts = <<>>
    /\ map = FALSE
    /\ mapMarkers = <<>>
    /\ mapLayer = NoMarkers
    /\ currentPage = "dashboard"
    /\ nTrends = 0
    /\ trendFetches = {}
    /\ trendChart = NoChart
    /\ trendText = NoAnalysis
    /\ call = NoCall
    /\ clock = NoClock

\* ------------------------------------------------------------ view renderers
Ceil(a, b) == (a + b - 1) \div b

\* updateDataTable without its branch for an empty page.
updateDataTable_noPlaceholder(d) == [placeholder |-> FALSE, rows |-> d]

\* updateDataTable: one placeholder row for an empty page, else a row per record
updateDataTable(d) == [placeholder |-> Len(d) = 0, rows |-> d]

\* updatePaginationInfo: "Page p / maxPage (total resultats)" and the buttons
updatePaginationInfo(p, t) ==
    LET c == Ceil(t, PageSize)
        maxPage == IF c = 0 THEN 1 ELSE c
    IN [page |-> p, maxPage |-> maxPage, total |-> t,
        prevDisabled |-> p <= 1, nextDisabled |-> p >= maxPage]

\* updateDashboardStats: the stat cards, averages over AppState.data
updateDashboardStats(d) == [shown |-> TRUE, rows |-> d]

\* createDashboardCharts: returns early, leaving the charts, on an empty page
createDashboardCharts(old, d) == IF Len(d) = 0 THEN old ELSE [shown |-> TRUE, rows |-> d]

\* showToast: appends a notification to #toast-container.  A notification
\* removes itself 3.3 s later, whatever happens meanwhile, so the model keeps
\* the notifications of the latest event only: each event starts from NoToasts.
showToast(ts, message, type) == Append(ts, [type |-> type, message |-> message])

\* ------------------------------------------------------------ request bounds
\* The record fetch of loadInitialData is counted from the start, issued or not.
InitFetchAhead == IF initPc \in {"loading", "health", "refs", "failed"} THEN 1 ELSE 0

\* Room for one more request; every delete in flight is followed by a fetch.
CanIssue ==
    /\ nIssued + Cardinality(deletes) + InitFetchAhead < MaxRequests
    /\ Cardinality(fetches) + Cardinality(deletes) + InitFetchAhead < MaxInFlight

\* confirm() is modal: no event is handled while the dialog is open.
Idle == dialog = 0 /\ initPc # "loading"

\* ---------------------------------------------------------------- loadRecords
\* loadRecords up to its await: the request built from AppState as it is now.
loadRecords(kind, f, p, del) ==
    [seq |-> nIssued + 1, kind |-> kind,
     query |-> getRecords([region |-> f.region, annee |-> f.year,
                           commune |-> f.commune, page |-> p,
                           page_size |-> PageSize]),
     del |-> del, reply |-> NoReply]

Issue(req) ==
    /\ nIssued' = nIssued + 1
    /\ fetches' = fetches \cup {req}

Tag(r) == [seq |-> r.seq, kind |-> r.kind, query |-> r.query]

\* loadRecordsDone with a catch that empties the page it could not reload.
loadRecordsDone_clearsOnError(r, ok, ts) ==
    IF ok
    THEN /\ data' = r.reply.data
         /\ total' = r.reply.total
         /\ dataReq' = Tag(r)
         /\ totalReq' = Tag(r)
         /\ table' = updateDataTable(r.reply.data)
         /\ pageInfo' = updatePaginationInfo(page, r.reply.total)
         /\ toasts' = ts
    ELSE /\ toasts' = showToast(ts, "Erreur lors du chargement des enregistrements", "error")
         /\ data' = <<>>
         /\ total' = 0
         /\ UNCHANGED <<dataReq, totalReq, table, pageInfo>>

\* loadRecordsDone adding the records of the reply to those it holds.
loadRecordsDone_appends(r, ok, ts) ==
    IF ok
    THEN /\ data' = data \o r.reply.data
         /\ total' = r.reply.total
         /\ dataReq' = Tag(r)
         /\ totalReq' = Tag(r)
         /\ table' = updateDataTable(data')
         /\ pageInfo' = updatePaginationInfo(page, r.reply.total)
         /\ toasts' = ts
    ELSE /\ toasts' = showToast(ts, "Erreur lors du chargement des enregistrements", "error")
         /\ UNCHANGED <<data, total, dataReq, totalReq, table, pageInfo>>

\* loadRecords after its await: the reply stored and rendered, or the catch.
loadRecordsDone(r, ok, ts) ==
    IF ok
    THEN /\ data' = r.reply.data
         /\ total' = r.reply.total
         /\ dataReq' = Tag(r)
         /\ totalReq' = Tag(r)
         /\ table' = updateDataTable(r.reply.data)
         /\ pageInfo' = updatePaginationInfo(page, r.reply.total)
         /\ toasts' = ts
    ELSE /\ toasts' = showToast(ts, "Erreur lors du chargement des enregistrements", "error")
         /\ UNCHANGED <<data, total, dataReq, totalReq, table, pageInfo>>

\* What the caller of loadRecords does once it has returned.
DashboardKinds == {"init", "filter-region", "filter-year"}

AfterLoadRecords(kind) ==
    /\ IF kind \in DashboardKinds
       THEN /\ stats' = updateDashboardStats(data')
            /\ charts' = createDashboardCharts(charts, data')
       ELSE UNCHANGED <<stats, charts>>
    /\ initPc' = IF kind = "init" THEN "done" ELSE initPc

\* The backend answers a record fetch.
ServeFetch(r) ==
    /\ r \in fetches
    /\ r.reply.status = "none"
    /\ fetches' = (fetches \ {r}) \cup
          {[r EXCEPT !.reply = [status |-> "ok", db |-> backend,
                                data |-> ListRecords(backend, r.query).data,
                                total |-> ListRecords(backend, r.query).total]]}
    /\ UNCHANGED <<backend, initPc, apiStatus, refs, regions, years, summary,
                   options, filters, page, total, data, dataReq, totalReq,
                   nIssued, deletes, dialog, confirms, table, pageInfo, stats,
                   charts, widgets, timer, toasts>>
    /\ UNCHANGED <<mapVars, trendVars, unitVars>>

\* The reply of a record fetch reaches the page; a fetch the backend has not
\* answered fails (no connection, or an error status).
DeliverFetch(r) ==
    /\ Idle
    /\ r \in fetches
    /\ fetches' = fetches \ {r}
    /\ loadRecordsDone(r, r.reply.status = "ok", NoToasts)
    /\ AfterLoadRecords(r.kind)
    /\ UNCHANGED <<backend, apiStatus, refs, regions, years, summary, options,
                   filters, page, nIssued, deletes, dialog, confirms, widgets,
                   timer>>
    /\ UNCHANGED <<mapVars, trendVars, unitVars>>

\* -------------------------------------------------------------- initialization
\* DOMContentLoaded: the listeners are attached, checkApiStatus is awaited.
DOMContentLoaded ==
    /\ initPc = "loading"
    /\ initPc' = "health"
    /\ UNCHANGED <<backend, apiStatus, refs, regions, years, summary, options,
                   filters, page, total, data, dataReq, totalReq, nIssued,
                   fetches, deletes, dialog, confirms, table, pageInfo, stats,
                   charts, widgets, timer>>
    /\ toasts' = NoToasts
    /\ UNCHANGED <<mapVars, trendVars, unitVars>>

\* checkApiHealth taking any response, whatever its status, for health.
checkApiHealth_anyResponse(outcome) == outcome # "network-error"

\* checkApiHealth: response.ok, and false for anything thrown.
checkApiHealth(outcome) == outcome = "ok"

\* loadInitialData awaiting getRegions before it calls getYears and getSummary.
PromiseAllSent_oneByOne ==
    [r \in RefNames |-> IF r = "regions" THEN "pending" ELSE "unsent"]

\* loadInitialData up to its await: Promise.all over the three reference
\* fetches, each called (and so sent) before Promise.all is awaited.
PromiseAllSent == [r \in RefNames |-> "pending"]

\* checkApiStatus after its await, then loadInitialData up to Promise.all.
HealthReply(outcome) ==
    /\ dialog = 0
    /\ confirms = <<>>
    /\ initPc = "health"
    /\ IF checkApiHealth(outcome)
       THEN /\ apiStatus' = "connected"
            /\ toasts' = NoToasts
       ELSE /\ apiStatus' = "error"
            /\ toasts' = showToast(NoToasts, "Impossible de se connecter a l'API", "error")
    /\ refs' = PromiseAllSent
    /\ initPc' = "refs"
    /\ UNCHANGED <<backend, regions, years, summary, options, filters, page,
                   total, data, dataReq, totalReq, nIssued, fetches, deletes,
                   dialog, confirms, table, pageInfo, stats, charts, widgets,
                   timer>>
    /\ UNCHANGED <<mapVars, trendVars, unitVars>>

\* populateFilters: the first option kept, one option per region / year.
populateFilters(rs, ys) ==
    [region |-> {""} \cup rs, year |-> {""} \cup {ToStr(y) : y \in ys}]

\* storeReference with each result stored as soon as its own fetch resolves.
storeReference_asItArrives(name, after, old, new) ==
    IF after[name] = "ok" THEN new ELSE old

\* Promise.all fulfils once every reference fetch has; only then does
\* loadInitialData store the three results in AppState.
storeReference(name, after, old, new) ==
    IF \A n \in RefNames : after[n] = "ok" THEN new ELSE old

\* A reference fetch resolves: Promise.all rejects on the first failure and
\* fulfils with the last success; loadInitialData goes on from there.  After
\* the rejection the other two fetches still resolve, but Promise.all has
\* settled and nothing of the page runs for them: apiFetch logs and rethrows
\* a failure, and neither loadInitialData nor its catch is entered again.
RefReply(name, ok) ==
    /\ dialog = 0
    /\ initPc \in {"refs", "failed"}
    /\ refs[name] = "pending"
    /\ refs' = [refs EXCEPT ![name] = IF ok THEN "ok" ELSE "failed"]
    /\ regions' = storeReference("regions", refs', regions, BackendRegions)
    /\ years' = storeReference("years", refs', years, BackendYears)
    /\ summary' = storeReference("summary", refs', summary, Cardinality(backend))
    /\ IF initPc = "failed"
       THEN /\ toasts' = NoToasts
            /\ UNCHANGED <<initPc, options, widgets, nIssued, fetches>>
       ELSE IF ~ok
       THEN /\ initPc' = "failed"
            /\ toasts' = showToast(NoToasts, "Erreur lors du chargement des donnees", "error")
            /\ UNCHANGED <<options, widgets, nIssued, fetches>>
       ELSE IF \A n \in RefNames : refs'[n] = "ok"
       THEN /\ options' = populateFilters(regions', years')
            /\ widgets' = [widgets EXCEPT !.filterRegion = "", !.filterYear = "",
                                          !.dataRegion = ""]
            /\ Issue(loadRecords("init", filters, page, NoDelete))
            /\ initPc' = "records"
            /\ toasts' = NoToasts
       ELSE /\ toasts' = NoToasts
            /\ UNCHANGED <<initPc, options, widgets, nIssued, fetches>>
    /\ UNCHANGED <<backend, apiStatus, filters, page, total, data, dataReq,
                   totalReq, deletes, dialog, confirms, table, pageInfo, stats,
                   charts, timer>>
    /\ UNCHANGED <<mapVars, trendVars, unitVars>>

\* --------------------------------------------------------------------- filters
\* FilterChange without the reset of the page.
FilterChange_keepsPage(field, value, kind) ==
    /\ CanIssue
    /\ filters' = [filters EXCEPT ![field] = value]
    /\ page' = page
    /\ Issue(loadRecords(kind, filters', page', NoDelete))
    /\ toasts' = NoToasts
    /\ UNCHANGED <<backend, initPc, apiStatus, refs, regions, years, summary,
                   options, total, data, dataReq, totalReq, deletes, dialog,
                   confirms, table, pageInfo, stats, charts>>

\* The body shared by the four filter listeners of setupFilters: the filter
\* field takes the widget's value, the page is reset, the records are fetched.
FilterChange(field, value, kind) ==
    /\ CanIssue
    /\ filters' = [filters EXCEPT ![field] = value]
    /\ page' = 1
    /\ Issue(loadRecords(kind, filters', page', NoDelete))
    /\ UNCHANGED <<backend, initPc, apiStatus, refs, regions, years, summary,
                   options, total, data, dataReq, totalReq, deletes, dialog,
                   confirms, table, pageInfo, stats, charts>>
    /\ toasts' = NoToasts

\* change on #filter-region
FilterRegionChange(v) ==
    /\ Idle
    /\ v \in options.region /\ v # widgets.filterRegion
    /\ widgets' = [widgets EXCEPT !.filterRegion = v]
    /\ FilterChange("region", v, "filter-region")
    /\ UNCHANGED timer
    /\ UNCHANGED <<mapVars, trendVars, unitVars>>

\* change on #filter-year
FilterYearChange(v) ==
    /\ Idle
    /\ v \in options.year /\ v # widgets.filterYear
    /\ widgets' = [widgets EXCEPT !.filterYear = v]
    /\ FilterChange("year", v, "filter-year")
    /\ UNCHANGED timer
    /\ UNCHANGED <<mapVars, trendVars, unitVars>>

\* change on #data-region
DataRegionChange(v) ==
    /\ Idle
    /\ v \in options.region /\ v # widgets.dataRegion
    /\ widgets' = [widgets EXCEPT !.dataRegion = v]
    /\ FilterChange("region", v, "data-region")
    /\ UNCHANGED timer
    /\ UNCHANGED <<mapVars, trendVars, unitVars>>

\* Texts typed into #search-commune.
SearchTexts == {"", "par"}

\* debounce: every call clears the pending timeout and sets a new one.
debounce(t, value) == [armed |-> TRUE, value |-> value]

\* input on #search-commune (typed only while a fetch may still be issued)
SearchInput(v) ==
    /\ Idle
    /\ CanIssue
    /\ v \in SearchTexts /\ v # widgets.search
    /\ widgets' = [widgets EXCEPT !.search = v]
    /\ timer' = debounce(timer, v)
    /\ UNCHANGED <<backend, initPc, apiStatus, refs, regions, years, summary,
                   options, filters, page, total, data, dataReq, totalReq,
                   nIssued, fetches, deletes, dialog, confirms, table, pageInfo,
                   stats, charts>>
    /\ toasts' = NoToasts
    /\ UNCHANGED <<mapVars, trendVars, unitVars>>

\* The debounce timeout expires: the search listener runs.
SearchTimer ==
    /\ Idle
    /\ timer.armed
    /\ timer' = NoTimer
    /\ FilterChange("commune", widgets.search, "search-commune")
    /\ UNCHANGED widgets
    /\ UNCHANGED <<mapVars, trendVars, unitVars>>

\* RefreshClick wired to loadInitialData: once the page is loaded, a click
\* on #btn-refresh fetches the reference data again.
RefreshClick_reloadsAll ==
    /\ Idle
    /\ initPc \in {"done", "failed"}
    /\ CanIssue
    /\ refs' = PromiseAllSent
    /\ initPc' = "refs"
    /\ toasts' = NoToasts
    /\ UNCHANGED <<backend, apiStatus, regions, years, summary, options,
                   filters, page, total, data, dataReq, totalReq, nIssued,
                   fetches, deletes, dialog, confirms, table, pageInfo, stats,
                   charts, widgets, timer>>
    /\ UNCHANGED <<mapVars, trendVars, unitVars>>

\* click on #btn-refresh
RefreshClick ==
    /\ Idle
    /\ CanIssue
    /\ Issue(loadRecords("btn-refresh", filters, page, NoDelete))
    /\ UNCHANGED <<backend, initPc, apiStatus, refs, regions, years, summary,
                   options, filters, page, total, data, dataReq, totalReq,
                   deletes, dialog, confirms, table, pageInfo, stats, charts,
                   widgets, timer>>
    /\ toasts' = NoToasts
    /\ UNCHANGED <<mapVars, trendVars, unitVars>>

\* ------------------------------------------------------------------ pagination
\* canPrev letting the first page go one back.
canPrev_fromFirst(p) == p >= 1

\* btn-prev listener: page > 1
canPrev(p) == p > 1

\* canNext with the comparison off by one.
canNext_inclusive(p, t) == p <= Ceil(t, PageSize)

\* btn-next listener: page < Math.ceil(total / pageSize)
canNext(p, t) == p < Ceil(t, PageSize)

\* click on #btn-prev
PrevClick ==
    /\ Idle
    /\ ~pageInfo.prevDisabled
    /\ IF canPrev(page)
       THEN /\ CanIssue
            /\ page' = page - 1
            /\ Issue(loadRecords("btn-prev", filters, page', NoDelete))
       ELSE UNCHANGED <<page, nIssued, fetches>>
    /\ UNCHANGED <<backend, initPc, apiStatus, refs, regions, years, summary,
                   options, filters, total, data, dataReq, totalReq, deletes,
                   dialog, confirms, table, pageInfo, stats, charts, widgets,
                   timer>>
    /\ toasts' = NoToasts
    /\ UNCHANGED <<mapVars, trendVars, unitVars>>

\* click on #btn-next
NextClick ==
    /\ Idle
    /\ ~pageInfo.nextDisabled
    /\ IF canNext(page, total)
       THEN /\ CanIssue
            /\ page' = page + 1
            /\ Issue(loadRecords("btn-next", filters, page', NoDelete))
       ELSE UNCHANGED <<page, nIssued, fetches>>
    /\ UNCHANGED <<backend, initPc, apiStatus, refs, regions, years, summary,
                   options, filters, total, data, dataReq, totalReq, deletes,
                   dialog, confirms, table, pageInfo, stats, charts, widgets,
                   timer>>
    /\ toasts' = NoToasts
    /\ UNCHANGED <<mapVars, trendVars, unitVars>>

\* ---------------------------------------------------------------------- delete
\* click on the delete button of a table row: handleDeleteRecord(id) opens
\* the confirm() dialog.  The user picks the last row of the table.
DeleteClick(id) ==
    /\ Idle
    /\ Len(table.rows) > 0
    /\ id = table.rows[Len(table.rows)]
    /\ Len(confirms) < MaxConfirms
    /\ CanIssue
    /\ dialog' = id
    /\ toasts' = NoToasts
    /\ UNCHANGED <<backend, initPc, apiStatus, refs, regions, years, summary,
                   options, filters, page, total, data, dataReq, totalReq,
                   nIssued, fetches, deletes, confirms, table, pageInfo, stats,
                   charts, widgets, timer>>
    /\ UNCHANGED <<mapVars, trendVars, unitVars>>

\* deleteRecord: DELETE /records/{id}
deleteRecord(id) == [id |-> id, reply |-> "none", before |-> {}]

\* ConfirmDecline reporting the refusal as a failed delete.
ConfirmDecline_asError ==
    /\ dialog # 0
    /\ dialog' = 0
    /\ confirms' = Append(confirms, FALSE)
    /\ toasts' = showToast(NoToasts, "Erreur lors de la suppression", "error")
    /\ UNCHANGED <<backend, initPc, apiStatus, refs, regions, years, summary,
                   options, filters, page, total, data, dataReq, totalReq,
                   nIssued, fetches, deletes, table, pageInfo, stats, charts,
                   widgets, timer>>
    /\ UNCHANGED <<mapVars, trendVars, unitVars>>

\* handleDeleteRecord when confirm() returns false: the early return.
ConfirmDecline ==
    /\ dialog # 0
    /\ dialog' = 0
    /\ confirms' = Append(confirms, FALSE)
    /\ toasts' = NoToasts
    /\ UNCHANGED <<backend, initPc, apiStatus, refs, regions, years, summary,
                   options, filters, page, total, data, dataReq, totalReq,
                   nIssued, fetches, deletes, table, pageInfo, stats, charts,
                   widgets, timer>>
    /\ UNCHANGED <<mapVars, trendVars, unitVars>>

\* handleDeleteRecord when confirm() returns true, up to its first await.
ConfirmAccept ==
    /\ dialog # 0
    /\ dialog' = 0
    /\ confirms' = Append(confirms, TRUE)
    /\ deletes' = deletes \cup {deleteRecord(dialog)}
    /\ toasts' = NoToasts
    /\ UNCHANGED <<backend, initPc, apiStatus, refs, regions, years, summary,
                   options, filters, page, total, data, dataReq, totalReq,
                   nIssued, fetches, table, pageInfo, stats, charts, widgets,
                   timer>>
    /\ UNCHANGED <<mapVars, trendVars, unitVars>>

\* DELETE /records/{id}: 204 and the row is gone, or 404 for a row that is
\* not there.  The 204 may get lost on its way back.
ServeDelete(d, lost) ==
    /\ d \in deletes
    /\ d.reply = "none"
    /\ backend' = backend \ {d.id}
    /\ deletes' = (deletes \ {d}) \cup
          {[d EXCEPT !.reply = IF d.id \notin backend THEN "404"
                               ELSE IF lost THEN "lost" ELSE "204",
                     !.before = backend]}
    /\ UNCHANGED <<initPc, apiStatus, refs, regions, years, summary, options,
                   filters, page, total, data, dataReq, totalReq, nIssued,
                   fetches, dialog, confirms, table, pageInfo, stats, charts,
                   widgets, timer, toasts>>
    /\ UNCHANGED <<mapVars, trendVars, unitVars>>

\* The rows of d without the record id.
Without(d, id) == SelectSeq(d, LAMBDA x : x # id)

\* handleDeleteRecordDone splicing the row out of the page instead of
\* fetching the page again.
handleDeleteRecordDone_localSplice(d, ok) ==
    /\ IF ok
       THEN /\ toasts' = showToast(NoToasts, "Enregistrement supprime", "success")
            /\ data' = Without(data, d.id)
            /\ total' = total - 1
            /\ table' = updateDataTable(data')
            /\ pageInfo' = updatePaginationInfo(page, total')
       ELSE /\ toasts' = showToast(NoToasts, "Erreur lors de la suppression", "error")
            /\ UNCHANGED <<data, total, table, pageInfo>>
    /\ UNCHANGED <<nIssued, fetches, filters, page, dataReq, totalReq, stats,
                   charts>>

\* handleDeleteRecordDone removing the row from the table before it knows
\* whether the delete went through.
handleDeleteRecordDone_optimistic(d, ok) ==
    /\ IF ok
       THEN /\ toasts' = showToast(NoToasts, "Enregistrement supprime", "success")
            /\ Issue(loadRecords("delete", filters, page,
                                 [id |-> d.id, before |-> d.before]))
       ELSE /\ toasts' = showToast(NoToasts, "Erreur lors de la suppression", "error")
            /\ UNCHANGED <<nIssued, fetches>>
    /\ table' = updateDataTable(Without(table.rows, d.id))
    /\ UNCHANGED <<filters, page, total, data, dataReq, totalReq, pageInfo,
                   stats, charts>>

\* handleDeleteRecord after "await deleteRecord(id)": the success toast and
\* the re-fetch, or the catch.
handleDeleteRecordDone(d, ok) ==
    /\ IF ok
       THEN /\ toasts' = showToast(NoToasts, "Enregistrement supprime", "success")
            /\ Issue(loadRecords("delete", filters, page,
                                 [id |-> d.id, before |-> d.before]))
       ELSE /\ toasts' = showToast(NoToasts, "Erreur lors de la suppression", "error")
            /\ UNCHANGED <<nIssued, fetches>>
    /\ UNCHANGED <<filters, page, total, data, dataReq, totalReq, table,
                   pageInfo, stats, charts>>

\* The 204 of a delete reaches the page; any other delete fails.
DeliverDelete(d) ==
    /\ Idle
    /\ d \in deletes
    /\ deletes' = deletes \ {d}
    /\ handleDeleteRecordDone(d, d.reply = "204")
    /\ UNCHANGED <<backend, initPc, apiStatus, refs, regions, years, summary,
                   options, dialog, confirms, widgets, timer>>
    /\ UNCHANGED <<mapVars, trendVars, unitVars>>

\* ------------------------------------------------------------------------- map
\* A marker is an object a redraw creates for a record, so it is known by
\* its record and its redraw.  AppState.mapMarkers is emptied before a redraw
\* pushes its markers, so it holds markers of the latest redraw only, by
\* record.  Of the map, mapLayer.latest are the markers the latest redraw
\* added, by record and in the order added, and mapLayer.earlier the records
\* that still have a marker of an earlier redraw on the map.
Range(q) == {q[i] : i \in DOMAIN q}

\* The forEach of marker.remove() left out: the old markers stay on the map.
removeMarkers_leaks(layer, markers) == layer

\* AppState.mapMarkers.forEach(marker => marker.remove())
removeMarkers(layer, markers) == layer \ Range(markers)

\* updateMapMarkers past its guard, the markers it creates: one per record of
\* AppState.data of the year picked in #map-year that has coordinates.
updateMapMarkers(d, yearFilter) ==
    SelectSeq(d, LAMBDA id : /\ yearFilter = "" \/ ToStr(AnneeOf(id)) = yearFilter
                             /\ HasCoordinates(id))

\* updateMapMarkers past its guard, as a whole: the markers of
\* AppState.mapMarkers are taken off the map, the array is emptied, and
\* every new marker is added to the map and pushed onto the array.  What was
\* the latest redraw is an earlier one from now on.
redrawMarkers(d, yearFilter) ==
    /\ mapMarkers' = updateMapMarkers(d, yearFilter)
    /\ mapLayer' = [latest |-> updateMapMarkers(d, yearFilter),
                    earlier |-> mapLayer.earlier \cup
                                removeMarkers(Range(mapLayer.latest), mapMarkers)]

\* What stays as it is when only the map page is touched.
MapFrame ==
    /\ toasts' = NoToasts
    /\ UNCHANGED <<backend, initPc, apiStatus, refs, regions, years, summary,
                   options, filters, page, total, data, dataReq, totalReq,
                   nIssued, fetches, deletes, dialog, confirms, table, pageInfo,
                   stats, charts, widgets, timer, unitVars>>
    /\ UNCHANGED <<nTrends, trendFetches, trendChart, trendText>>

\* click on the "map" nav item: navigateTo('map') calls initializeMap, which
\* creates the map and draws the markers the first time only.
NavigateToMap(yearFilter) ==
    /\ Idle
    /\ yearFilter \in options.year
    /\ IF map
       THEN UNCHANGED mapVars
       ELSE /\ map' = TRUE
            /\ redrawMarkers(data, yearFilter)
    /\ currentPage' = "map"
    /\ MapFrame

\* change on #map-pollutant or #map-year: updateMapMarkers, which returns
\* at once while there is no map.
MapFilterChange(yearFilter) ==
    /\ Idle
    /\ yearFilter \in options.year
    /\ IF map
       THEN /\ redrawMarkers(data, yearFilter)
            /\ UNCHANGED map
       ELSE UNCHANGED mapVars
    /\ UNCHANGED currentPage
    /\ MapFrame

\* ---------------------------------------------------------------------- trends
\* GET /trends/{pollutant}?region -> {data: [{annee, value}]}: the yearly
\* means of a pollutant, here their values in tenths of ug/m3.
TrendPollutants == {"no2", "pm10"}

TrendSeries(pollutant, region) ==
    IF region = "A" THEN <<300, 335>>
    ELSE IF region = "B" THEN <<300>>
    ELSE IF pollutant = "no2" THEN <<335, 300>>
    ELSE <<100, 100>>

\* getPollutantTrend: the path takes the pollutant, the query the region
\* when there is one.
getPollutantTrend(pollutant, params) ==
    [pollutant |-> pollutant,
     query |-> [k \in {k \in {"region"} : params[k] # ""} |-> params[k]]]

\* loadTrendData up to its await: the request for the pollutant and the
\* region the widgets of the trends page show.
loadTrendData(pollutant, region) ==
    [seq |-> nTrends + 1, pollutant |-> pollutant,
     endpoint |-> getPollutantTrend(pollutant, [region |-> region]),
     reply |-> NoReply]

IssueTrend(req) ==
    /\ nTrends < MaxTrends
    /\ nTrends' = nTrends + 1
    /\ trendFetches' = trendFetches \cup {req}

\* createTrendChart: the chart is destroyed and drawn again from the series.
createTrendChart(trendData, pollutant) ==
    [shown |-> TRUE, pollutant |-> pollutant, data |-> trendData]

\* loadTrendData after its await: the chart and the analysis text drawn from
\* the reply, or the catch.  AppState.currentPage is not looked at.
loadTrendDataDone(t, ok) ==
    IF ok
    THEN /\ trendChart' = createTrendChart(t.reply.data, t.pollutant)
         /\ trendText' = [shown |-> TRUE, analysis |-> analyzeTrend(t.reply.data)]
         /\ toasts' = NoToasts
    ELSE /\ toasts' = showToast(NoToasts, "Erreur lors du chargement des tendances", "error")
         /\ UNCHANGED <<trendChart, trendText>>

\* What stays as it is when only the trends page or the page shown is touched.
TrendFrame ==
    UNCHANGED <<backend, initPc, apiStatus, refs, regions, years, summary,
                options, filters, page, total, data, dataReq, totalReq, nIssued,
                fetches, deletes, dialog, confirms, table, pageInfo, stats,
                charts, widgets, timer, mapVars, unitVars>>

\* click on the nav item of a page that has nothing to load.
NavigateTo(p) ==
    /\ Idle
    /\ p \in {"dashboard", "data"}
    /\ currentPage' = p
    /\ toasts' = NoToasts
    /\ UNCHANGED <<nTrends, trendFetches, trendChart, trendText>>
    /\ TrendFrame

\* click on the "trends" nav item: navigateTo('trends') calls loadTrendData.
NavigateToTrends(pollutant, region) ==
    /\ Idle
    /\ region \in options.region
    /\ currentPage' = "trends"
    /\ IssueTrend(loadTrendData(pollutant, region))
    /\ toasts' = NoToasts
    /\ UNCHANGED <<trendChart, trendText>>
    /\ TrendFrame

\* change on #trend-pollutant or #trend-region, widgets of the trends page,
\* which is displayed only while it is the current page.
TrendFilterChange(pollutant, region) ==
    /\ Idle
    /\ currentPage = "trends"
    /\ region \in options.region
    /\ IssueTrend(loadTrendData(pollutant, region))
    /\ toasts' = NoToasts
    /\ UNCHANGED <<currentPage, trendChart, trendText>>
    /\ TrendFrame

\* The backend answers a trend fetch.
ServeTrend(t) ==
    /\ t \in trendFetches
    /\ t.reply.status = "none"
    /\ trendFetches' = (trendFetches \ {t}) \cup
          {[t EXCEPT !.reply =
              [status |-> "ok",
               data |-> TrendSeries(t.pollutant,
                                    IF "region" \in DOMAIN t.endpoint.query
                                    THEN t.endpoint.query["region"] ELSE "")]]}
    /\ UNCHANGED <<currentPage, nTrends, trendChart, trendText, toasts>>
    /\ TrendFrame

\* The reply of a trend fetch reaches the page; a fetch the backend has not
\* answered fails.
DeliverTrend(t) ==
    /\ Idle
    /\ t \in trendFetches
    /\ trendFetches' = trendFetches \ {t}
    /\ loadTrendDataDone(t, t.reply.status = "ok")
    /\ UNCHANGED <<currentPage, nTrends>>
    /\ TrendFrame

\* ---------------------------------------------------------------- specification
HealthOutcomes == {"ok", "http-error", "network-error"}

Next ==
    \/ DOMContentLoaded
    \/ \E o \in HealthOutcomes : HealthReply(o)
    \/ \E n \in RefNames, ok \in BOOLEAN : RefReply(n, ok)
    \/ \E r \in fetches : ServeFetch(r)
    \/ \E r \in fetches : DeliverFetch(r)
    \/ \E v \in BackendRegions \cup {""} : FilterRegionChange(v)
    \/ \E v \in {ToStr(y) : y \in BackendYears} \cup {""} : FilterYearChange(v)
    \/ \E v \in BackendRegions \cup {""} : DataRegionChange(v)
    \/ \E v \in SearchTexts : SearchInput(v)
    \/ SearchTimer
    \/ RefreshClick
    \/ PrevClick
    \/ NextClick
    \/ \E id \in 1..MaxRecords : DeleteClick(id)
    \/ ConfirmDecline
    \/ ConfirmAccept
    \/ \E d \in deletes, lost \in BOOLEAN : ServeDelete(d, lost)
    \/ \E d \in deletes : DeliverDelete(d)
    \/ \E y \in {ToStr(y) : y \in BackendYears} \cup {""} : NavigateToMap(y)
    \/ \E y \in {ToStr(y) : y \in BackendYears} \cup {""} : MapFilterChange(y)

Spec == Init /\ [][Next]_vars

\* ------------------------------------------------- navigation and trends page
\* The page is loaded, and the user goes from page to page and works the
\* trends page; the records stay those of the first fetch.
TrendNext ==
    \/ DOMContentLoaded
    \/ \E o \in HealthOutcomes : HealthReply(o)
    \/ \E n \in RefNames, ok \in BOOLEAN : RefReply(n, ok)
    \/ \E r \in fetches : ServeFetch(r)
    \/ \E r \in fetches : DeliverFetch(r)
    \/ \E p \in {"dashboard", "data"} : NavigateTo(p)
    \/ \E y \in {ToStr(y) : y \in BackendYears} \cup {""} : NavigateToMap(y)
    \/ \E q \in TrendPollutants, v \in BackendRegions \cup {""} : NavigateToTrends(q, v)
    \/ \E q \in TrendPollutants, v \in BackendRegions \cup {""} : TrendFilterChange(q, v)
    \/ \E t \in trendFetches : ServeTrend(t)
    \/ \E t \in trendFetches : DeliverTrend(t)

TrendSpec == Init /\ [][TrendNext]_vars

\* ------------------------------------------------ function-level specification
\* The functions of the client that keep no state, each called on its own
\* with every input of a bounded set; call records the call and its outcome.
\* The page itself stays as loaded.
UnitFrame ==
    UNCHANGED <<backend, initPc, apiStatus, refs, regions, years, summary,
                options, filters, page, total, data, dataReq, totalReq, nIssued,
                fetches, deletes, dialog, confirms, table, pageInfo, stats,
                charts, widgets, timer, toasts, mapVars, trendVars, clock>>

CallApiFetch(endpoint, out) ==
    /\ call' = [fn |-> "apiFetch", args |-> [endpoint |-> endpoint, out |-> out],
                result |-> apiFetch(endpoint, out)]
    /\ UnitFrame

CallGetColorForValue(value, pollutant) ==
    /\ call' = [fn |-> "getColorForValue",
                args |-> [value |-> value, pollutant |-> pollutant],
                result |-> getColorForValue(value, pollutant)]
    /\ UnitFrame

\* Every series of up to n points.
RECURSIVE Series(_)
Series(n) ==
    IF n = 0 THEN {<<>>}
    ELSE Series(n - 1) \cup
         {Append(q, v) : q \in {x \in Series(n - 1) : Len(x) = n - 1}, v \in TrendValues}

CallAnalyzeTrend(trendData) ==
    /\ call' = [fn |-> "analyzeTrend", args |-> trendData,
                result |-> analyzeTrend(trendData)]
    /\ UnitFrame

UnitNext ==
    \/ \E e \in Endpoints, o \in FetchOutcomes : CallApiFetch(e, o)
    \/ \E v \in 1..MaxValue, p \in Pollutants : CallGetColorForValue(v, p)
    \/ \E q \in Series(MaxPoints) : CallAnalyzeTrend(q)

UnitSpec == Init /\ [][UnitNext]_vars

\* ---------------------------------------------------------- debounce on its own
\* The wrapper debounce(func, 300) returns, watched with a clock: clock.now
\* is the time in ms, clock.text the text of the input, clock.timers the
\* timeouts set and neither fired nor cleared, clock.timeout the closure's
\* variable (the id setTimeout returned last), clock.log the keystrokes and
\* the calls of func in the order they happened.
Quantum == Wait \div 3
KeyTexts == {"p", "pa", "par"}

NumKeys(log) == Len(SelectSeq(log, LAMBDA e : e.type = "key"))

\* executedFunction without its clearTimeout: the earlier timeout stays set.
executedFunction_noClear(c, v) ==
    LET id == NumKeys(c.log) + 1
    IN [c EXCEPT !.text = v,
                 !.timers = c.timers \cup {[id |-> id, due |-> c.now + Wait]},
                 !.timeout = id,
                 !.log = Append(c.log, [type |-> "key", at |-> c.now, value |-> v])]

\* executedFunction: clearTimeout(timeout); timeout = setTimeout(later, wait)
executedFunction(c, v) ==
    LET id == NumKeys(c.log) + 1
    IN [c EXCEPT !.text = v,
                 !.timers = {t \in c.timers : t.id # c.timeout}
                            \cup {[id |-> id, due |-> c.now + Wait]},
                 !.timeout = id,
                 !.log = Append(c.log, [type |-> "key", at |-> c.now, value |-> v])]

\* later: clearTimeout(timeout); func(...args), and func reads the text the
\* input holds as it runs.
later(c, t) ==
    [c EXCEPT !.timers = {u \in c.timers \ {t} : u.id # c.timeout},
              !.log = Append(c.log, [type |-> "call", at |-> c.now, value |-> c.text])]

DebounceFrame ==
    UNCHANGED <<backend, initPc, apiStatus, refs, regions, years, summary,
                options, filters, page, total, data, dataReq, totalReq, nIssued,
                fetches, deletes, dialog, confirms, table, pageInfo, stats,
                charts, widgets, timer, toasts, mapVars, trendVars, call>>

\* input on #search-commune
Keystroke(v) ==
    /\ NumKeys(clock.log) < MaxKeys
    /\ v # clock.text
    /\ clock' = executedFunction(clock, v)
    /\ DebounceFrame

\* Time passes; a timeout that is due may still be waiting for its turn.
Tick ==
    /\ clock.now < (MaxKeys + 1) * Wait
    /\ clock' = [clock EXCEPT !.now = clock.now + Quantum]
    /\ DebounceFrame

\* A timeout that is due fires.
TimerFires(t) ==
    /\ t \in clock.timers
    /\ clock.now >= t.due
    /\ clock' = later(clock, t)
    /\ DebounceFrame

DebounceNext ==
    \/ \E v \in KeyTexts : Keystroke(v)
    \/ Tick
    \/ \E t \in clock.timers : TimerFires(t)

DebounceSpec == Init /\ [][DebounceNext]_vars

\* ---------------------------------------------------------------- properties
FilterKinds == {"filter-region", "filter-year", "data-region", "search-commune"}

RecordsError == <<[type |-> "error", message |-> "Erreur lors du chargement des enregistrements"]>>

\* The step consumes the reply (or the failure) of record fetch r.
Resolves(r) == r \in fetches /\ \A q \in fetches' : q.seq # r.seq

\* C1: of two filter-change fetches in flight together, the reply to the one
\* issued first never replaces the reply to the one issued last: when the
\* older one resolves while AppState.data holds the newer one's reply,
\* AppState.data and the table stay as they are.
C1_LastIssuedWins ==
    [][\A r \in fetches :
          (/\ Resolves(r)
           /\ r.kind \in FilterKinds
           /\ dataReq.kind \in FilterKinds
           /\ dataReq.seq > r.seq)
          => (dataReq' = dataReq /\ data' = data /\ table' = table)]_vars

\* C2: every record fetch issued by a filter listener (dashboard region,
\* dashboard year, data-page region, commune search) asks for page 1, and
\* AppState.pagination.page is 1 when it is issued.
C2_FilterFetchAsksPageOne ==
    /\ \A r \in fetches :
          r.kind \in FilterKinds
          => ("page" \in DOMAIN r.query /\ r.query["page"] = ToStr(1))
    /\ (\E r \in fetches : r.kind \in FilterKinds /\ r.seq = nIssued) => page = 1

\* C2 witness: a filter fetch is in flight, issued while page 2 was shown.
C2_Witness ==
    \E r \in fetches : r.kind \in FilterKinds /\ pageInfo.page = 2 /\ page = 1

\* C3: the page is never below 1, and no step raises it above
\* ceil(total / pageSize) for the total known when the step is taken; the page
\* moves by one or is reset to 1.
C3_PageStaysInRange ==
    [][/\ page' >= 1
       /\ page' > page => page' <= Ceil(total, PageSize)
       /\ page' # page => page' \in {1, page - 1, page + 1}]_vars

\* C3 witness: a next click has moved the page to the last page.
C3_Witness ==
    /\ page = Ceil(total, PageSize)
    /\ \E r \in fetches : r.kind = "btn-next" /\ r.seq = nIssued

\* C4: after every successful record fetch the page shown does not exceed
\* ceil(total / pageSize) for the total the backend has just returned (an
\* empty result, which has no pages, is left aside).
C4_PageWithinTotal ==
    pageInfo.total > 0 => pageInfo.page <= Ceil(pageInfo.total, PageSize)

\* C5: a record fetch that fails leaves AppState.data, pagination.total and
\* the table as they are, shows exactly one error notification, and returns
\* normally to its caller, which goes on (the dashboard listeners and
\* loadInitialData render the stat cards from the unchanged data).
C5_FailedFetchKeepsPage ==
    [][\A r \in fetches :
          (Resolves(r) /\ r.reply.status = "none")
          => /\ data' = data /\ total' = total /\ dataReq' = dataReq
             /\ table' = table /\ pageInfo' = pageInfo
             /\ toasts' = RecordsError
             /\ r.kind \in DashboardKinds => stats' = updateDashboardStats(data)
             /\ r.kind = "init" => initPc' = "done"]_vars

\* C5 witness: a fetch has just failed while a page of records was shown.
C5_Witness == toasts = RecordsError /\ Len(data) > 0 /\ table.rows = data

DeleteSuccess == <<[type |-> "success", message |-> "Enregistrement supprime"]>>
DeleteError == <<[type |-> "error", message |-> "Erreur lors de la suppression"]>>
InitError == <<[type |-> "error", message |-> "Erreur lors du chargement des donnees"]>>

\* The step consumes the reply (or the failure) of delete d.
DeleteResolves(d) == d \in deletes /\ deletes' = deletes \ {d}

\* The query loadRecords builds from AppState as it is.
CurrentQuery ==
    getRecords([region |-> filters.region, annee |-> filters.year,
                commune |-> filters.commune, page |-> page,
                page_size |-> PageSize])

C7_FailedDeleteKeepsRow ==
    [][\A d \in deletes :
          (DeleteResolves(d) /\ d.reply # "204")
          => /\ toasts' = DeleteError
             /\ UNCHANGED <<nIssued, fetches, data, page, total, filters, table,
                            pageInfo>>]_vars

\* C7 witness: a delete has just failed and the table still shows its rows.
C7_Witness == toasts = DeleteError /\ Len(table.rows) > 0 /\ table.rows = data

\* C8: when confirm() returns false, handleDeleteRecord sends nothing, shows
\* no notification and changes nothing in AppState or on the page.
C8_DeclineChangesNothing ==
    [][(Len(confirms') = Len(confirms) + 1 /\ ~confirms'[Len(confirms')])
       => /\ toasts' = NoToasts
          /\ UNCHANGED <<backend, nIssued, fetches, deletes, filters, page,
                         total, data, regions, years, summary, table, pageInfo,
                         stats, charts>>]_vars

\* C8 witness: the user has declined a delete.
C8_Witness == confirms # <<>> /\ ~confirms[Len(confirms)] /\ dialog = 0

\* The step in which the record fetch of loadInitialData fails.
InitFetchFails ==
    \E r \in fetches : Resolves(r) /\ r.kind = "init" /\ r.reply.status = "none"

\* The step in which Promise.all over the reference fetches rejects.
ReferenceFails == initPc = "refs" /\ initPc' = "failed"

\* C9 as stated: whichever fetch of the initialization fails, the failure is
\* reported, AppState.regions, years and summary are those from before the
\* initialization, and AppState.data and pagination are left as they are.
C9_AnyInitFailureKeepsState ==
    [][(ReferenceFails \/ InitFetchFails)
       => /\ Len(toasts') = 1
          /\ regions' = {} /\ years' = {} /\ summary' = 0
          /\ UNCHANGED <<data, page, total>>]_vars

\* C9 amended: when a reference fetch fails, the failure is reported once and
\* none of regions, years, summary, data, pagination changes, then or later
\* (no subset of the reference data is stored); when the first record fetch
\* fails, the failure is reported once and data and pagination are left as
\* they are, while regions, years and summary hold the reference data
\* stored before that fetch was issued.
C9_InitFailure ==
    [][/\ ReferenceFails
          => /\ toasts' = InitError
             /\ UNCHANGED <<regions, years, summary, options, data, page, total>>
       /\ initPc' = "failed" => (regions' = {} /\ years' = {} /\ summary' = 0)
       /\ InitFetchFails
          => /\ toasts' = RecordsError
             /\ UNCHANGED <<regions, years, summary, data, page, total>>
             /\ regions' = BackendRegions /\ years' = BackendYears]_vars

\* C9 witness: a reference fetch has failed after another one had succeeded.
C9_Witness ==
    /\ initPc = "failed"
    /\ \E n \in RefNames : refs[n] = "ok"
    /\ regions = {} /\ years = {} /\ summary = 0

\* C10: the three reference fetches are all sent before any of them has
\* resolved; the record fetch of loadInitialData is issued only once all
\* three have succeeded and the filter widgets are populated; and
\* loadInitialData renders the stat cards and the charts in the step in
\* which that record fetch completes, never before.
C10_InitOrder ==
    [][/\ (\E n \in RefNames : refs'[n] \in {"ok", "failed"})
          => \A n \in RefNames : refs'[n] # "unsent"
       /\ \A r \in fetches' :
             r.kind = "init"
             => /\ \A n \in RefNames : refs'[n] = "ok"
                /\ options' = populateFilters(BackendRegions, BackendYears)
                /\ initPc' = "records"
       /\ initPc' \in {"loading", "health", "refs", "failed"}
          => (~stats'.shown /\ ~charts'.shown)
       /\ (initPc # "done" /\ initPc' = "done")
          => /\ \E r \in fetches : Resolves(r) /\ r.kind = "init"
             /\ stats' = updateDashboardStats(data')
             /\ charts' = createDashboardCharts(charts, data')]_vars

\* C10 witness: the initialization is over and has rendered the dashboard
\* from the reply to its record fetch.
C10_Witness ==
    /\ initPc = "done"
    /\ dataReq.kind = "init"
    /\ stats = updateDashboardStats(data) /\ charts.shown

\* C11: when the record fetch of a filter change (any of the four filter
\* widgets) completes, the table, the stat cards, the dashboard charts and,
\* once the map exists, the map markers all show the new AppState.data, an
\* empty page included.
C11_FilterChangeRendersAllViews ==
    [][\A r \in fetches :
          (Resolves(r) /\ r.kind \in FilterKinds /\ r.reply.status = "ok")
          => /\ table' = updateDataTable(data')
             /\ stats' = updateDashboardStats(data')
             /\ charts' = [shown |-> TRUE, rows |-> data']
             /\ map => \E y \in options.year :
                          mapMarkers' = updateMapMarkers(data', y)]_vars

PageKinds == {"btn-prev", "btn-next"}

\* What a click on a pagination button at its boundary must leave alone.
PaginationUnchanged ==
    UNCHANGED <<filters, page, total, data, regions, years, summary, nIssued,
                fetches, table, pageInfo, stats, charts, mapMarkers>>

\* The step issues exactly one record fetch, of the given kind, built from
\* AppState as the step leaves it.
IssuesOne(kind) ==
    /\ nIssued' = nIssued + 1
    /\ \E q \in fetches' \ fetches :
          /\ fetches' = fetches \cup {q}
          /\ q.kind = kind /\ q.seq = nIssued'
          /\ q.query = CurrentQuery'

\* C12: a click on previous at page 1, or on next at the last page or with
\* no results, issues no fetch and changes nothing in AppState; any other
\* click on previous or next moves the page by exactly one, leaves the
\* filters alone and issues exactly one record fetch, and when that fetch
\* completes only the table and the pagination info are rendered again, not
\* the stat cards, the charts or the map markers.
C12_PaginationFrame ==
    [][/\ (PrevClick /\ page <= 1) => PaginationUnchanged
       /\ (NextClick /\ page >= Ceil(total, PageSize)) => PaginationUnchanged
       /\ (PrevClick /\ page > 1)
          => (page' = page - 1 /\ filters' = filters /\ IssuesOne("btn-prev"))
       /\ (NextClick /\ page < Ceil(total, PageSize))
          => (page' = page + 1 /\ filters' = filters /\ IssuesOne("btn-next"))
       /\ \A r \in fetches :
             (Resolves(r) /\ r.kind \in PageKinds)
             => /\ UNCHANGED <<stats, charts, mapMarkers>>
                /\ r.reply.status = "ok"
                   => /\ table' = updateDataTable(data')
                      /\ pageInfo' = updatePaginationInfo(page', total')]_vars

\* C12 witness: the reply to a click on next is on display in the table and
\* the pagination info, while the stat cards still show the first page.
C12_Witness ==
    /\ dataReq.kind = "btn-next"
    /\ pageInfo.page = 2 /\ table.rows = data
    /\ stats.shown /\ stats.rows # data

\* The message apiFetch gives the error of a non-ok response.
ErrorMessage(out) ==
    IF out.body.json /\ out.body.hasDetail /\ out.body.detail # ""
    THEN out.body.detail
    ELSE "HTTP error! status: " \o ToStr(out.status)

\* C13: apiFetch swallows no failure: a response with a non-success status
\* makes it throw, with the detail of the error body as message when there
\* is one and a message holding the status code otherwise; a network failure
\* makes it throw too; and whenever it throws it has logged the failure with
\* the endpoint and returns no value.
C13_ApiFetchRethrows ==
    call.fn = "apiFetch"
    => LET out == call.args.out
           res == call.result
       IN /\ out.type = "network-error" => res.kind = "throw"
          /\ (out.type = "response" /\ ~ResponseOk(out.status))
             => (res.kind = "throw" /\ res.message = ErrorMessage(out))
          /\ res.kind = "throw"
             => (res.log = <<call.args.endpoint>> /\ ~res.isNull /\ res.value = NoBody)
          /\ res.kind = "return" => res.log = <<>>

\* C13 witness: a 404 without a usable detail has been thrown on as the
\* status message, logged with its endpoint.
C13_Witness ==
    /\ call.fn = "apiFetch"
    /\ call.args.out.status = 404 /\ ~call.args.out.body.json
    /\ call.result.kind = "throw"
    /\ call.result.message = "HTTP error! status: 404"
    /\ call.result.log = <<"/records/7">>

\* C14: for a successful response apiFetch returns the parsed body, except
\* that for a 204 it returns null without reading the body; a response with
\* a non-success status never comes back as null.
C14_ApiFetchResult ==
    (call.fn = "apiFetch" /\ call.args.out.type = "response")
    => LET out == call.args.out
           res == call.result
       IN /\ (ResponseOk(out.status) /\ out.status # 204 /\ out.body.json)
             => (res.kind = "return" /\ ~res.isNull /\ res.value = out.body)
          /\ out.status = 204
             => (res.kind = "return" /\ res.isNull /\ ~res.read)
          /\ ~ResponseOk(out.status) => ~(res.kind = "return" /\ res.isNull)

\* C14 witness: a 204 with no JSON in its body has come back as null.
C14_Witness ==
    /\ call.fn = "apiFetch"
    /\ call.args.out.status = 204 /\ ~call.args.out.body.json
    /\ call.result.kind = "return" /\ call.result.isNull

\* C15: checkApiHealth returns true exactly when /health answered with a
\* success status, false for an error status and false for anything thrown;
\* nothing reaches its caller as an error: checkApiStatus shows the result
\* and the DOMContentLoaded handler goes on to loadInitialData in every case.
C15_HealthCheckNeverThrows ==
    [][\A o \in HealthOutcomes :
          HealthReply(o)
          => /\ (apiStatus' = "connected") <=> (o = "ok")
             /\ apiStatus' \in {"connected", "error"}
             /\ initPc' = "refs" /\ refs' = PromiseAllSent]_vars

\* C15 witness: the health check has failed and loadInitialData has been
\* started all the same.
C15_Witness ==
    /\ apiStatus = "error" /\ initPc = "refs"
    /\ \A n \in RefNames : refs[n] = "pending"

\* The fetch the step issues, if it issues one.
Issued(q) == q \in fetches' /\ nIssued' = nIssued + 1 /\ q.seq = nIssued'

\* C16: the query of every record fetch holds region, annee and commune
\* exactly when the filter of AppState.filters is not empty as the request is
\* issued, with the filter's value, and the page and page_size of
\* AppState.pagination as the request is issued.
C16_QueryMatchesState ==
    [][\A q \in fetches' :
          Issued(q)
          => /\ DOMAIN q.query \subseteq StrKeys \cup IntKeys
             /\ ("region" \in DOMAIN q.query) <=> (filters'.region # "")
             /\ ("annee" \in DOMAIN q.query) <=> (filters'.year # "")
             /\ ("commune" \in DOMAIN q.query) <=> (filters'.commune # "")
             /\ filters'.region # "" => q.query["region"] = filters'.region
             /\ filters'.year # "" => q.query["annee"] = filters'.year
             /\ filters'.commune # "" => q.query["commune"] = filters'.commune
             /\ "page" \in DOMAIN q.query /\ q.query["page"] = ToStr(page')
             /\ "page_size" \in DOMAIN q.query
             /\ q.query["page_size"] = ToStr(PageSize)]_vars

\* C16 witness: the request issued last carries a region but no commune and
\* no annee, as the filters stand.
C16_Witness ==
    \E q \in fetches :
        /\ q.seq = nIssued
        /\ DOMAIN q.query = {"region", "page", "page_size"}
        /\ q.query["region"] = filters.region
        /\ filters.year = "" /\ filters.commune = ""

\* C17: every call of the search listener comes straight after a keystroke
\* (none in between, no second call for the same keystroke), at least the
\* quiet period after it, with that keystroke's text; so keystrokes less
\* than the quiet period apart have no call between them, and a burst of
\* them ends in one call.  After a keystroke exactly one timeout is set, due
\* the quiet period after that keystroke: the earlier one was cancelled.
C17_DebounceCoalesces ==
    LET log == clock.log
        n == Len(log)
    IN /\ \A j \in 1..n :
             log[j].type = "call"
             => /\ j > 1 /\ log[j - 1].type = "key"
                /\ log[j].value = log[j - 1].value
                /\ log[j].at >= log[j - 1].at + Wait
       /\ IF n > 0 /\ log[n].type = "key"
          THEN \E t \in clock.timers :
                  clock.timers = {t} /\ t.due = log[n].at + Wait
          ELSE clock.timers = {}

\* C17 witness: three keystrokes, each less than the quiet period after the
\* one before, then one call with the text of the third.
C17_Witness ==
    LET log == clock.log
    IN /\ Len(log) = MaxKeys + 1
       /\ \A j \in 1..MaxKeys : log[j].type = "key"
       /\ \A j \in 2..MaxKeys : /\ log[j].at > log[j - 1].at
                                /\ log[j].at < log[j - 1].at + Wait
       /\ log[MaxKeys + 1].type = "call"
       /\ log[MaxKeys + 1].value = log[MaxKeys].value

\* The {low, high} pairs C18 states.
ClaimedThresholds ==
    [no2 |-> <<20, 40>>, pm10 |-> <<15, 45>>, pm25 |-> <<10, 25>>, o3 |-> <<60, 100>>]

C19_TrendClasses ==
    (call.fn = "analyzeTrend" /\ call.result.sufficient)
    => LET values == SelectSeq(call.args, LAMBDA v : v # Null)
           firstValue == values[1]
           lastValue == values[Len(values)]
           t == call.result.change.tenths
       IN firstValue > 0
          => /\ call.result.change.kind = "finite"
             /\ 2 * Abs((lastValue - firstValue) * 1000 - t * firstValue) <= firstValue
             /\ t < -100 => call.result.trend = "significant decrease"
             /\ (-100 <= t /\ t < 0) => call.result.trend = "slight decrease"
             /\ t > 100 => call.result.trend = "concerning increase"
             /\ (0 < t /\ t <= 100) => call.result.trend = "slight increase"
             /\ t = 0 => call.result.trend = "stable"

\* C19 witness: the series 30.0, 33.5 has given +11.7 % and the concerning
\* increase.
C19_Witness ==
    /\ call.fn = "analyzeTrend"
    /\ call.args = <<300, 335>>
    /\ call.result.change = [kind |-> "finite", tenths |-> 117]
    /\ call.result.trend = "concerning increase"

\* C20: whenever updateDataTable runs (a record fetch has succeeded), the
\* table body afterwards is the one placeholder row and no record row if
\* AppState.data is empty, and otherwise one row per record of AppState.data
\* in its order, no placeholder and nothing of the render before.
C20_TableShowsData ==
    [][\A r \in fetches :
          (Resolves(r) /\ r.reply.status = "ok")
          => /\ Len(data') = 0 => table' = [placeholder |-> TRUE, rows |-> <<>>]
             /\ Len(data') > 0 => table' = [placeholder |-> FALSE, rows |-> data']]_vars

\* C20 witness: an empty page is on display as the placeholder row, after a
\* page with records had been rendered (the stat cards still show it).
C20_Witness ==
    /\ table = [placeholder |-> TRUE, rows |-> <<>>]
    /\ data = <<>>
    /\ stats.shown /\ stats.rows # <<>>

\* C21: after any sequence of map redraws (the initialization of the map,
\* changes of #map-pollutant or #map-year), the markers on the map are
\* exactly the markers AppState.mapMarkers holds, and all of them are
\* markers of the latest redraw: no marker of an earlier redraw is left on
\* the map.  Without a map there is no marker at all.
C21_MarkersMatchMap ==
    /\ mapLayer.latest = mapMarkers
    /\ mapLayer.earlier = {}
    /\ ~map => mapMarkers = <<>>

\* C21 witness: the map exists and shows the one record of the second page,
\* which was fetched after another page.
C21_Witness ==
    /\ map
    /\ dataReq.seq > 1
    /\ mapMarkers = <<MaxRecords>>
    /\ mapLayer = [latest |-> <<MaxRecords>>, earlier |-> {}]

\* A trend fetch resolves in this step.
TrendResolves(t) == t \in trendFetches /\ \A q \in trendFetches' : q.seq # t.seq

\* C22: when the reply of a trend fetch arrives while AppState.currentPage
\* is not 'trends' (the user has left the trends page meanwhile), it is
\* discarded: neither the trend chart nor the analysis text changes.
C22_LateTrendReplyDiscarded ==
    [][\A t \in trendFetches :
          (TrendResolves(t) /\ currentPage # "trends")
          => UNCHANGED <<trendChart, trendText>>]_vars

\* The requests that fail in this step, by kind.
HealthCheckFails == initPc = "health" /\ initPc' = "refs" /\ apiStatus' = "error"
ReferenceFetchFails == \E n \in RefNames : refs[n] = "pending" /\ refs'[n] = "failed"
RecordFetchFails == \E r \in fetches : Resolves(r) /\ r.reply.status = "none"
TrendFetchFails == \E t \in trendFetches : TrendResolves(t) /\ t.reply.status = "none"
DeleteFails == \E d \in deletes : DeleteResolves(d) /\ d.reply # "204"

\* The step sends nothing again: no record fetch, trend fetch or delete is
\* issued, no reference fetch is sent a second time and the health check is
\* not run again.
NothingSentAgain ==
    /\ nIssued' = nIssued /\ fetches' \subseteq fetches
    /\ nTrends' = nTrends /\ trendFetches' \subseteq trendFetches
    /\ deletes' \subseteq deletes
    /\ \A n \in RefNames : refs[n] \in {"ok", "failed"} => refs'[n] = refs[n]
    /\ initPc' = "health" => initPc = "health"

\* C23: a request that fails (health check, reference fetch, record fetch,
\* trend fetch, delete) is not sent again by the step that handles the
\* failure, and that step puts exactly one error notification on screen,
\* neither none nor more than one.
C23_EveryFailureSurfacedOnce ==
    [][(HealthCheckFails \/ ReferenceFetchFails \/ RecordFetchFails
            \/ TrendFetchFails \/ DeleteFails)
       => /\ Len(toasts') = 1
          /\ toasts'[1].type = "error"
          /\ NothingSentAgain]_vars

\* C24: once the initialization is over, no step (filter change, page click,
\* refresh click, delete, navigation, completion of a fetch) changes
\* AppState.regions, years or summary; they are written only in the step of
\* loadInitialData in which the last reference fetch succeeds; and every
\* reference fetch is sent once, by loadInitialData after the health check,
\* and never again.
C24_ReferenceDataReadOnly ==
    [][/\ initPc \in {"records", "done", "failed"}
          => UNCHANGED <<regions, years, summary>>
       /\ <<regions, years, summary>>' # <<regions, years, summary>>
          => /\ initPc = "refs" /\ initPc' = "records"
             /\ \A n \in RefNames : refs'[n] = "ok"
       /\ \A n \in RefNames :
             /\ refs'[n] = "unsent" => initPc' \in {"loading", "health"}
             /\ (refs[n] # "pending" /\ refs'[n] = "pending")
                => (refs[n] = "unsent" /\ initPc = "health")
             /\ refs[n] \in {"ok", "failed"} => refs'[n] = refs[n]]_vars

\* C24 witness: the page is loaded and a record has been deleted since, so
\* the summary still counts the records there were at startup.
C24_Witness ==
    /\ initPc = "done"
    /\ regions = BackendRegions /\ years = BackendYears
    /\ summary = MaxRecords
    /\ Cardinality(backend) < MaxRecords
    /\ dataReq.kind = "delete"

\* C25: AppState.data and AppState.pagination.total always come from one and
\* the same reply.  A record fetch that succeeds replaces both in one step,
\* data with exactly the records of its reply and total with its total, and
\* the table and the pagination info rendered in that step show that pair;
\* no other step changes either of them.
C25_DataAndTotalFromOneReply ==
    [][/\ \A r \in fetches :
             (Resolves(r) /\ r.reply.status = "ok")
             => /\ data' = r.reply.data /\ total' = r.reply.total
                /\ table'.rows = r.reply.data /\ pageInfo'.total = r.reply.total
       /\ <<data, total>>' # <<data, total>>
          => \E r \in fetches : Resolves(r) /\ r.reply.status = "ok"
       /\ dataReq' = totalReq']_vars

\* C25 witness: the reply for the second page has replaced the first page:
\* its one record with the total of that same reply.
C25_Witness ==
    /\ dataReq.seq > 1
    /\ dataReq = totalReq
    /\ data = <<MaxRecords>>
    /\ total = MaxRecords
    /\ table.rows = data /\ pageInfo.total = total

\* C26: whenever no record fetch is in flight and AppState.data holds a
\* reply, it is the reply to a request issued with the filters and the page
\* AppState holds now: the filters and the page number on screen describe
\* the rows on screen, also after a fetch has failed and after replies have
\* arrived out of order.
C26_DataMatchesFiltersAndPage ==
    (fetches = {} /\ dataReq.seq > 0) => dataReq.query = CurrentQuery
====
